---- MODULE Spec2Model ----
(***************************************************************************)
(* lccfq-backend: the QPU state machine (backend/fsm.py), the task queue   *)
(* (backend/queue.py) and the executor (backend/executor.py) with the      *)
(* polling loop that drives it (main.py).                                  *)
(*                                                                         *)
(* The specifications share the variables:                                 *)
(*   SpecFSM    one caller drives QPUAbstraction.transition                *)
(*   SpecQueue  one caller drives the QPUTaskQueue operations              *)
(*   SpecSolo   one thread calls QPUExecutor.execute, call after call      *)
(*   SpecFaulty one thread calls QPUExecutor.execute and the hardware      *)
(*              interface's run calls may raise                            *)
(*   SpecControl  one thread submits Control tasks with every command      *)
(*              while the polling thread calls _execute_next               *)
(*   Spec       submitter threads call QPUExecutor.execute while the       *)
(*              polling thread calls QPUExecutor._execute_next             *)
(* Neither the queue nor the state machine takes a lock, so in Spec every  *)
(* read and every write of shared data is a step of its own.               *)
(***************************************************************************)
EXTENDS Integers, Sequences, FiniteSets, TLC

\* ---------------------------------------------------------------- bounds
\* Spec: the executor accepts at most MaxTasks tasks.
MaxTasks == 2
\* SpecQueue: the single caller enqueues at most MaxEnq entries.
MaxEnq == 3
\* SpecControl: a qtol task asks for at most MaxRetries retries.
MaxRetries == 2

\* -------------------------------------------------------------- constants
None == "None"

QPUState ==
    {"accessible", "responsive", "tuned", "idle", "busy", "mis-tuned",
     "unresponsive", "inaccessible"}

QPUEvent ==
    {"connect", "disconnect", "device_ok", "device_fail", "tune_success",
     "tune_fail", "task_started", "task_finished", "fidelity_degraded", "reset"}

TaskType == {"circuit", "test", "control"}

Contexts == {"CTX1"}
Callers == {"alice", "bob"}
Poller == "main"
\* The submitter of Control tasks in SpecControl.
Operator == "carol"
Threads == Callers \cup {Poller, Operator}
TaskIds == {"t1", "t2"}
Priorities == {0, 1}

VARIABLES
    state,            \* QPUAbstraction.state
    last_transition,  \* QPUAbstraction.last_transition
    queue,            \* QPUTaskQueue._queue, a deque of QueueEntry
    context_locks,    \* QPUTaskQueue._context_locks
    clock,            \* datetime.now(): later enqueues read later times
    out,              \* the call that ended last: its argument and its outcome
    snap,             \* the pending entries when the current run of dequeues began
    drained,          \* what the dequeues of the current run returned, in order
    thread,           \* each thread's frame inside the executor (see Ready)
    trace             \* the task ids handed to an execution routine, in order

vars ==
    <<state, last_transition, queue, context_locks, clock, out, snap, drained,
      thread, trace>>

fsmVars == <<state, last_transition>>
queueVars == <<queue, context_locks, clock>>
callerVars == <<out, snap, drained>>
threadVars == <<thread, trace>>

\* ------------------------------------------------------------ state machine
\* A faulty table: the Tuned/Reset row leads back to Responsive.
next_state_reset_slip(s, e) ==
    CASE s = "inaccessible" /\ e = "connect" -> "accessible"
      [] s = "accessible" /\ e = "device_ok" -> "responsive"
      [] s = "accessible" /\ e = "device_fail" -> "unresponsive"
      [] s = "responsive" /\ e = "tune_success" -> "tuned"
      [] s = "responsive" /\ e = "tune_fail" -> "mis-tuned"
      [] s = "tuned" /\ e = "fidelity_degraded" -> "mis-tuned"
      [] s = "mis-tuned" /\ e = "tune_success" -> "tuned"
      [] s = "tuned" /\ e = "reset" -> "responsive"
      [] s = "idle" /\ e = "task_started" -> "busy"
      [] s = "busy" /\ e = "task_finished" -> "idle"
      [] s = "unresponsive" /\ e = "disconnect" -> "inaccessible"
      [] OTHER -> None

\* A faulty table: a finished task leaves the machine Tuned, not Idle.
next_state_finish_to_tuned(s, e) ==
    CASE s = "inaccessible" /\ e = "connect" -> "accessible"
      [] s = "accessible" /\ e = "device_ok" -> "responsive"
      [] s = "accessible" /\ e = "device_fail" -> "unresponsive"
      [] s = "responsive" /\ e = "tune_success" -> "tuned"
      [] s = "responsive" /\ e = "tune_fail" -> "mis-tuned"
      [] s = "tuned" /\ e = "fidelity_degraded" -> "mis-tuned"
      [] s = "mis-tuned" /\ e = "tune_success" -> "tuned"
      [] s = "tuned" /\ e = "reset" -> "idle"
      [] s = "idle" /\ e = "task_started" -> "busy"
      [] s = "busy" /\ e = "task_finished" -> "tuned"
      [] s = "unresponsive" /\ e = "disconnect" -> "inaccessible"
      [] OTHER -> None

\* A faulty table: Unresponsive has no way out.
next_state_no_disconnect(s, e) ==
    CASE s = "inaccessible" /\ e = "connect" -> "accessible"
      [] s = "accessible" /\ e = "device_ok" -> "responsive"
      [] s = "accessible" /\ e = "device_fail" -> "unresponsive"
      [] s = "responsive" /\ e = "tune_success" -> "tuned"
      [] s = "responsive" /\ e = "tune_fail" -> "mis-tuned"
      [] s = "tuned" /\ e = "fidelity_degraded" -> "mis-tuned"
      [] s = "mis-tuned" /\ e = "tune_success" -> "tuned"
      [] s = "tuned" /\ e = "reset" -> "idle"
      [] s = "idle" /\ e = "task_started" -> "busy"
      [] s = "busy" /\ e = "task_finished" -> "idle"
      [] OTHER -> None

next_state_idle_degrades(s, e) ==
    CASE s = "inaccessible" /\ e = "connect" -> "accessible"
      [] s = "accessible" /\ e = "device_ok" -> "responsive"
      [] s = "accessible" /\ e = "device_fail" -> "unresponsive"
      [] s = "responsive" /\ e = "tune_success" -> "tuned"
      [] s = "responsive" /\ e = "tune_fail" -> "mis-tuned"
      [] s = "tuned" /\ e = "fidelity_degraded" -> "mis-tuned"
      [] s = "idle" /\ e = "fidelity_degraded" -> "mis-tuned"
      [] s = "mis-tuned" /\ e = "tune_success" -> "tuned"
      [] s = "tuned" /\ e = "reset" -> "idle"
      [] s = "idle" /\ e = "task_started" -> "busy"
      [] s = "busy" /\ e = "task_finished" -> "idle"
      [] s = "unresponsive" /\ e = "disconnect" -> "inaccessible"
      [] OTHER -> None

\* QPUAbstraction._next_state: the transition table; None when no row matches.
next_state(s, e) ==
    CASE s = "inaccessible" /\ e = "connect" -> "accessible"
      [] s = "accessible" /\ e = "device_ok" -> "responsive"
      [] s = "accessible" /\ e = "device_fail" -> "unresponsive"
      [] s = "responsive" /\ e = "tune_success" -> "tuned"
      [] s = "responsive" /\ e = "tune_fail" -> "mis-tuned"
      [] s = "tuned" /\ e = "fidelity_degraded" -> "mis-tuned"
      [] s = "mis-tuned" /\ e = "tune_success" -> "tuned"
      [] s = "tuned" /\ e = "reset" -> "idle"
      [] s = "idle" /\ e = "task_started" -> "busy"
      [] s = "busy" /\ e = "task_finished" -> "idle"
      [] s = "unresponsive" /\ e = "disconnect" -> "inaccessible"
      [] OTHER -> None

\* The outcome of a call: the exception it raised (its class and the argument
\* it was built with), the scalar it returned (None, a bool), or the object it
\* returned (an entry, a list of entries, a result).
Raised(cls, arg) == [raised |-> cls, arg |-> arg]
Returned(v) == [returned |-> v]
ReturnedObject(v) == [object |-> v]
IsObject(r) == "object" \in DOMAIN r
IsRaised(r) == "raised" \in DOMAIN r
\* A finished call, as its caller saw it.
Call(op, arg, outcome) == [op |-> op, arg |-> arg, outcome |-> outcome]
NoCall == Call(None, None, Returned(None))

\* QPUAbstraction._invalid_transition: raise UnknownQPUState(event.value).
invalid_transition(e) == Raised("UnknownQPUState", e)

\* f"{prev} --({event})--> {next_state}"
AuditRecord(prev, e, n) == <<prev, e, n>>

\* A faulty transition: self.state is assigned before next_state is tested,
\* so a rejected event leaves the machine without a state.
transition_assign_first(e) ==
    LET n == next_state(state, e) IN
    /\ state' = n
    /\ last_transition' = IF n = None THEN last_transition
                          ELSE AuditRecord(state, e, n)

\* A faulty transition: the audit record is built after self.state was
\* assigned, so its previous state is the new one.
transition_record_after_store(e) ==
    LET n == next_state(state, e) IN
    IF n = None
    THEN UNCHANGED fsmVars
    ELSE /\ state' = n
         /\ last_transition' = AuditRecord(n, e, n)

\* QPUAbstraction.transition as one uninterrupted call: its effect on the
\* machine, and what the caller gets.
transition(e) ==
    LET n == next_state(state, e) IN
    IF n = None
    THEN UNCHANGED fsmVars
    ELSE /\ state' = n
         /\ last_transition' = AuditRecord(state, e, n)

TransitionOutcome(s, e) ==
    IF next_state(s, e) = None THEN invalid_transition(e) ELSE Returned(None)

\* -------------------------------------------------------------- task queue
\* The fields of a task that the queue and the executor read: TaskBase.task_id,
\* TaskBase.type, ControlTask.command, ControlTask.params (tolerance met by
\* default, max_retries) and the execution_context the queue looks up.
Task(id, type, command, retries, ctx) ==
    [task_id |-> id, type |-> type, command |-> command, max_retries |-> retries,
     execution_context |-> ctx]

\* QueueEntry
QueueEntry(task, now, user, context_id, priority) ==
    [task_id |-> task.task_id, task |-> task, timestamp |-> now, user |-> user,
     context_id |-> context_id, priority |-> priority]

Range(q) == {q[i] : i \in 1..Len(q)}
RemoveAt(q, i) == SubSeq(q, 1, i - 1) \o SubSeq(q, i + 1, Len(q))
\* deque.remove(x): drops the first element equal to x.
IndexOf(q, x) == CHOOSE i \in 1..Len(q) : q[i] = x /\ \A j \in 1..(i - 1) : q[j] # x
RemoveFirst(q, x) == RemoveAt(q, IndexOf(q, x))

\* A faulty key: the priority is not negated, so the lowest priority wins.
KeyLessAscending(a, b) ==
    \/ a.priority < b.priority
    \/ a.priority = b.priority /\ a.timestamp < b.timestamp

\* key=lambda entry: (-entry.priority, entry.timestamp), compared as tuples.
KeyLess(a, b) ==
    \/ -a.priority < -b.priority
    \/ -a.priority = -b.priority /\ a.timestamp < b.timestamp

\* A faulty selection: the head of the deque, as popleft() would give.
HeadEntry(q) == q[1]

\* min(self._queue, key=...): the first entry no other entry's key is below.
MinEntry(q) ==
    LET i == CHOOSE i \in 1..Len(q) :
                 /\ \A j \in 1..Len(q) : ~KeyLess(q[j], q[i])
                 /\ \A j \in 1..(i - 1) : KeyLess(q[i], q[j])
    IN  q[i]

\* A faulty lock: enqueue flips the lock of the task's context.
LocksAfterEnqueueToggle(locks, task) ==
    IF task.execution_context # None
    THEN [locks EXCEPT ![task.execution_context] = ~@]
    ELSE locks

\* The lock table after QPUTaskQueue.enqueue of `task`.
LocksAfterEnqueue(locks, task) ==
    IF task.execution_context # None /\ ~locks[task.execution_context]
    THEN [locks EXCEPT ![task.execution_context] = TRUE]
    ELSE locks

\* The entries QPUTaskQueue.dequeue_all_for_context selects, in deque order.
MatchingEntries(q, ctx_id) ==
    SelectSeq(q, LAMBDA en : en.task.execution_context # None /\ en.context_id = ctx_id)

\* QPUTaskQueue.enqueue: the effect on the queue's own fields.
enqueue(task, user, context_id, priority) ==
    /\ clock' = clock + 1
    /\ context_locks' = LocksAfterEnqueue(context_locks, task)
    /\ queue' = Append(queue, QueueEntry(task, clock + 1, user, context_id, priority))

\* The first index whose entry has the given task id, 0 when there is none
\* (the loop of QPUTaskQueue.remove).
FirstWithId(q, task_id) ==
    IF \E i \in 1..Len(q) : q[i].task_id = task_id
    THEN CHOOSE i \in 1..Len(q) :
             /\ q[i].task_id = task_id
             /\ \A j \in 1..(i - 1) : q[j].task_id # task_id
    ELSE 0

\* ------------------------------------------- the queue under a single caller
\* A call other than dequeue ends the current run of dequeues.
NewRun ==
    /\ snap' = queue'
    /\ drained' = <<>>

\* What reading task.execution_context finds on a task as CircuitTask, TestTask
\* or ControlTask build it: TaskBase declares no such field, so the object has
\* no such attribute.
NoAttribute == "<no attribute>"

\* The tasks the single caller enqueues: circuits that were given an
\* execution_context attribute (a context or None), and circuits as the task
\* classes build them, without it.
QueueTasks ==
    {Task(id, "circuit", None, 0, c) :
        id \in TaskIds, c \in Contexts \cup {None, NoAttribute}}

\* QPUTaskQueue.enqueue called by the single caller: "if
\* task.execution_context:" is evaluated before the append and raises
\* AttributeError on a task without the attribute.
QEnqueue ==
    \E task \in QueueTasks, context_id \in Contexts \cup {None}, priority \in Priorities :
        /\ clock < MaxEnq
        /\ IF task.execution_context = NoAttribute
           THEN /\ out' = Call("enqueue", task.task_id,
                               Raised("AttributeError", "execution_context"))
                /\ UNCHANGED queueVars
           ELSE /\ enqueue(task, "alice", context_id, priority)
                /\ out' = Call("enqueue", task.task_id,
                               ReturnedObject(QueueEntry(task, clock + 1, "alice",
                                                         context_id, priority)))
        /\ UNCHANGED <<fsmVars, threadVars>>
        /\ NewRun

\* QPUTaskQueue.dequeue
dequeue ==
    /\ IF queue = <<>>
       THEN /\ out' = Call("dequeue", None, Returned(None))
            /\ UNCHANGED <<queue, drained>>
       ELSE /\ queue' = RemoveFirst(queue, MinEntry(queue))
            /\ out' = Call("dequeue", None, ReturnedObject(MinEntry(queue)))
            /\ drained' = Append(drained, MinEntry(queue))
    /\ UNCHANGED <<context_locks, clock, snap, fsmVars, threadVars>>

\* A faulty peek: the head of the deque.
peek_head ==
    /\ out' = Call("peek", None,
                   IF queue = <<>> THEN Returned(None)
                   ELSE ReturnedObject(queue[1]))
    /\ UNCHANGED <<queueVars, fsmVars, threadVars>>
    /\ NewRun

\* QPUTaskQueue.peek
peek ==
    /\ out' = Call("peek", None,
                   IF queue = <<>> THEN Returned(None)
                   ELSE ReturnedObject(MinEntry(queue)))
    /\ UNCHANGED <<queueVars, fsmVars, threadVars>>
    /\ NewRun

\* A faulty remove: every entry with the task id goes.
remove_every_match ==
    \E task_id \in TaskIds :
        /\ queue' = SelectSeq(queue, LAMBDA en : en.task_id # task_id)
        /\ out' = Call("remove", task_id, Returned(FirstWithId(queue, task_id) # 0))
        /\ UNCHANGED <<context_locks, clock, fsmVars, threadVars>>
        /\ NewRun

\* QPUTaskQueue.remove
remove ==
    \E task_id \in TaskIds :
        /\ IF FirstWithId(queue, task_id) # 0
           THEN /\ queue' = RemoveAt(queue, FirstWithId(queue, task_id))
                /\ out' = Call("remove", task_id, Returned(TRUE))
           ELSE /\ queue' = queue
                /\ out' = Call("remove", task_id, Returned(FALSE))
        /\ UNCHANGED <<context_locks, clock, fsmVars, threadVars>>
        /\ NewRun

\* QPUTaskQueue.dequeue_all_for_context
dequeue_all_for_context ==
    \E ctx_id \in Contexts :
        /\ queue' = SelectSeq(queue,
                         LAMBDA en : en \notin Range(MatchingEntries(queue, ctx_id)))
        /\ out' = Call("dequeue_all_for_context", ctx_id,
                       ReturnedObject(MatchingEntries(queue, ctx_id)))
        /\ UNCHANGED <<context_locks, clock, fsmVars, threadVars>>
        /\ NewRun

\* QPUTaskQueue.is_locked
is_locked ==
    \E ctx_id \in Contexts :
        /\ out' = Call("is_locked", ctx_id, Returned(context_locks[ctx_id]))
        /\ UNCHANGED <<queueVars, fsmVars, threadVars>>
        /\ NewRun

\* QPUTaskQueue.unlock_context
unlock_context ==
    \E ctx_id \in Contexts :
        /\ context_locks' = [context_locks EXCEPT ![ctx_id] = FALSE]
        /\ out' = Call("unlock_context", ctx_id, Returned(None))
        /\ UNCHANGED <<queue, clock, fsmVars, threadVars>>
        /\ NewRun

\* QPUTaskQueue.list_pending
list_pending ==
    /\ out' = Call("list_pending", None, ReturnedObject(queue))
    /\ UNCHANGED <<queueVars, fsmVars, threadVars>>
    /\ NewRun

\* A faulty clear: the lock table is emptied with the queue.
clear_with_locks ==
    /\ queue' = <<>>
    /\ context_locks' = [c \in Contexts |-> FALSE]
    /\ out' = Call("clear", None, Returned(None))
    /\ UNCHANGED <<clock, fsmVars, threadVars>>
    /\ NewRun

\* QPUTaskQueue.clear
clear ==
    /\ queue' = <<>>
    /\ out' = Call("clear", None, Returned(None))
    /\ UNCHANGED <<context_locks, clock, fsmVars, threadVars>>
    /\ NewRun

NextQueue ==
    \/ QEnqueue
    \/ dequeue
    \/ peek
    \/ remove
    \/ dequeue_all_for_context
    \/ is_locked
    \/ unlock_context
    \/ list_pending
    \/ clear

\* -------------------------------------------- the machine under a single caller
FTransition ==
    \E e \in QPUEvent :
        /\ transition(e)
        /\ out' = Call("transition", e, TransitionOutcome(state, e))
        /\ UNCHANGED <<queueVars, snap, drained, threadVars>>

NextFSM == FTransition

\* A thread's frame: where it is (pc), the task under dispatch (cur), how many
\* _handle_deferred_tasks loops enclose the running _dispatch (depth), the
\* argument of the running qpu.transition (event), the audit record that call
\* is about to store (nxt), best_entry of the running queue.dequeue (best), the
\* number of hwman.retune() calls the running qtol has made (attempt) and the
\* number of its hwman.evaluate_fidelity() calls (evals), the result of the
\* outermost _dispatch (res), and the task the top-level call was given
\* (arg). A field holds None while no later step reads it.
Ready ==
    [pc |-> "ready", cur |-> None, depth |-> 0, event |-> None, nxt |-> None,
     best |-> None, attempt |-> 0, evals |-> 0, res |-> None, arg |-> None]

\* ---------------------------------------------------------- initial states
\* QPUAbstraction.__init__, QPUTaskQueue.__init__, QPUExecutor.__init__
Init ==
    /\ state = "inaccessible"
    /\ last_transition = None
    /\ queue = <<>>
    /\ context_locks = [c \in Contexts |-> FALSE]
    /\ clock = 0
    /\ out = NoCall
    /\ snap = <<>>
    /\ drained = <<>>
    /\ thread = [t \in Threads |-> Ready]
    /\ trace = <<>>

\* ---------------------------------------------------------------- executor
\* Results (model/results.py): each carries the id it was built with.
CircuitResult(task_id) == [kind |-> "CircuitResult", task_id |-> task_id]
TestResult(task_id) == [kind |-> "TestResult", task_id |-> task_id]
ControlAck(task_id, status) ==
    [kind |-> "ControlAck", task_id |-> task_id, status |-> status]

\* The ids of the tasks handed to execute, in the order of their acceptance.
IdSeq == <<"t1", "t2", "t3", "t4", "t5", "t6">>

\* The commands _execute_control knows, and two it does not: the ones of
\* test_execute_control_unknown_command and test_execute_control_disconnect.
KnownCommands == {"reset", "retune", "resetall", "qtol"}
Commands == KnownCommands \cup {"self_destruct", "disconnect"}

\* What the submitters hand to execute: (type, command, max_retries, context,
\* priority). alice submits tasks of every type, with and without a context;
\* bob submits plain circuits at either priority; carol submits Control tasks
\* with every command, qtol with every number of retries up to MaxRetries.
Submissions(t) ==
    CASE t = "alice" ->
           {<<"circuit", None, 0, c, p>> : c \in Contexts \cup {None}, p \in Priorities}
           \cup {<<"test", None, 0, None, 0>>, <<"control", "reset", 0, None, 0>>,
                 <<"alien_task", None, 0, None, 0>>}
      [] t = Operator ->
           {<<"control", c, 0, None, 0>> : c \in Commands \ {"qtol"}}
           \cup {<<"control", "qtol", n, None, 0>> : n \in 0..MaxRetries}
      [] OTHER -> {<<"circuit", None, 0, None, p>> : p \in Priorities}

\* The thread leaves the executor: its top-level call returned or raised.
Leave(t, outcome) ==
    /\ thread' = [thread EXCEPT ![t] = Ready]
    /\ out' = Call(IF t = Poller THEN "_execute_next" ELSE "execute", None, outcome)

\* An exception nobody in the executor catches: it unwinds every frame of the
\* thread (main.start_loop catches it for the polling thread and goes on).
Raise(t, exc) == Leave(t, exc)

\* A dispatch routine produced `result`: _dispatch keeps it and calls
\* _handle_deferred_tasks. `d` is the depth of that _dispatch.
Produced(t, d, result) ==
    /\ thread' = [thread EXCEPT ![t].pc = "drain", ![t].cur = None,
                                ![t].depth = d, ![t].best = None,
                                ![t].event = None, ![t].nxt = None,
                                ![t].attempt = 0, ![t].evals = 0,
                                ![t].res = IF d = 0 THEN result ELSE @]
    /\ UNCHANGED out

\* The thread is about to call qpu.transition(e) on behalf of `task`.
CallTransition(t, d, task, e) ==
    /\ thread' = [thread EXCEPT ![t].pc = "transition", ![t].cur = task,
                                ![t].depth = d, ![t].best = None,
                                ![t].event = e]
    /\ UNCHANGED out

\* A faulty match: a command it does not know is handled as a reset.
execute_control_default_reset(t, d, task) ==
    CASE task.command = "retune" -> Raise(t, Raised("AttributeError", "status"))
      [] task.command = "resetall" -> Raise(t, Raised("AttributeError", "reset_all"))
      [] task.command = "qtol" ->
           /\ thread' = [thread EXCEPT ![t].pc = "qtol", ![t].cur = task,
                                       ![t].depth = d, ![t].best = None,
                                       ![t].attempt = 0, ![t].evals = 0]
           /\ UNCHANGED out
      [] OTHER -> CallTransition(t, d, task, "reset")

\* QPUExecutor._execute_control up to its first hardware call or transition:
\* the match on task.command.
execute_control(t, d, task) ==
    CASE task.command = "reset" -> CallTransition(t, d, task, "reset")
      [] task.command = "retune" ->
           \* hwman.retune() returns a tuple, which has no attribute status
           Raise(t, Raised("AttributeError", "status"))
      [] task.command = "resetall" ->
           \* HWManClient defines run_reset_all, not reset_all
           Raise(t, Raised("AttributeError", "reset_all"))
      [] task.command = "qtol" ->
           /\ thread' = [thread EXCEPT ![t].pc = "qtol", ![t].cur = task,
                                       ![t].depth = d, ![t].best = None,
                                       ![t].attempt = 0, ![t].evals = 0]
           /\ UNCHANGED out
      [] OTHER -> Produced(t, d, ControlAck(task.task_id, "error"))

\* QPUExecutor._dispatch of `task` at depth d, up to the first access to shared
\* data: the match on task.type and the routine it selects.
dispatch(t, d, task) ==
    /\ IF task.type \in {"circuit", "test"}
       THEN CallTransition(t, d, task, "task_started")
       ELSE IF task.type = "control"
       THEN execute_control(t, d, task)
       ELSE Raise(t, Raised("UnknownQPUTaskType", task.type))
    /\ trace' = IF task.type \in TaskType THEN Append(trace, task.task_id) ELSE trace

\* _dispatch returns: to execute or _execute_next, which return its result, or
\* to the _handle_deferred_tasks loop that called it.
ReturnFromDispatch(t) ==
    IF thread[t].depth = 0
    THEN Leave(t, ReturnedObject(thread[t].res))
    ELSE /\ thread' = [thread EXCEPT ![t].pc = "drain", ![t].depth = @ - 1]
         /\ UNCHANGED out

\* A faulty submit: the entry is enqueued before the type is checked.
ExecuteEnqueueFirst(t) ==
    \E s \in Submissions(t) :
        LET task == Task(IdSeq[clock + 1], s[1], s[2], s[3], s[4]) IN
        /\ thread[t].pc = "ready"
        /\ clock < MaxTasks
        /\ enqueue(task, t, s[4], s[5])
        /\ IF task.type \notin TaskType
           THEN /\ out' = Call("execute", None, Raised("UnknownQPUTaskType", task.type))
                /\ UNCHANGED thread
           ELSE /\ thread' = [thread EXCEPT ![t].pc = "check", ![t].arg = task]
                /\ UNCHANGED out
        /\ UNCHANGED <<fsmVars, snap, drained, trace>>

\* QPUExecutor.execute up to the enqueue: the type check and the queue entry.
Execute(t) ==
    \E s \in Submissions(t) :
        LET task == Task(IdSeq[clock + 1], s[1], s[2], s[3], s[4]) IN
        /\ thread[t].pc = "ready"
        /\ clock < MaxTasks
        /\ IF task.type \notin TaskType
           THEN /\ out' = Call("execute", None, Raised("UnknownQPUTaskType", task.type))
                /\ UNCHANGED <<thread, queueVars>>
           ELSE /\ enqueue(task, t, s[4], s[5])
                /\ thread' = [thread EXCEPT ![t].pc = "check", ![t].arg = task]
                /\ UNCHANGED out
        /\ UNCHANGED <<fsmVars, snap, drained, trace>>

\* A faulty readiness test: only Busy defers, every other state dispatches.
CheckIdleBusyOnly(t) ==
    /\ thread[t].pc = "check"
    /\ IF state = "busy"
       THEN Leave(t, Returned(None)) /\ UNCHANGED trace
       ELSE dispatch(t, 0, thread[t].arg)
    /\ UNCHANGED <<fsmVars, queueVars, snap, drained>>

\* QPUExecutor.execute: "if self.qpu.state != QPUState.IDLE: return None",
\* else "return self._dispatch(task)".
CheckIdle(t) ==
    /\ thread[t].pc = "check"
    /\ IF state # "idle"
       THEN Leave(t, Returned(None)) /\ UNCHANGED trace
       ELSE dispatch(t, 0, thread[t].arg)
    /\ UNCHANGED <<fsmVars, queueVars, snap, drained>>

\* A faulty caller: the invalid transition is swallowed and the call returns
\* none.
TransitionReadSwallow(t) ==
    /\ thread[t].pc = "transition"
    /\ IF next_state(state, thread[t].event) = None
       THEN Leave(t, Returned(None))
       ELSE /\ thread' = [thread EXCEPT ![t].pc = "store",
                             ![t].nxt = AuditRecord(state, thread[t].event,
                                                    next_state(state, thread[t].event))]
            /\ UNCHANGED out
    /\ UNCHANGED <<fsmVars, queueVars, snap, drained, trace>>

\* QPUAbstraction.transition inside the executor, first half: prev and
\* next_state are read from self.state; no row raises UnknownQPUState.
TransitionRead(t) ==
    /\ thread[t].pc = "transition"
    /\ IF next_state(state, thread[t].event) = None
       THEN Raise(t, invalid_transition(thread[t].event))
       ELSE /\ thread' = [thread EXCEPT ![t].pc = "store",
                             ![t].nxt = AuditRecord(state, thread[t].event,
                                                    next_state(state, thread[t].event))]
            /\ UNCHANGED out
    /\ UNCHANGED <<fsmVars, queueVars, snap, drained, trace>>

\* The status of the ControlAck that follows a control transition.
AckStatus(th) ==
    CASE th.event = "tune_fail" -> "error"
      [] th.event = "tune_success" /\ th.attempt >= th.cur.max_retries -> "warning"
      [] OTHER -> "ok"

\* QPUAbstraction.transition inside the executor, second half: self.state and
\* self.last_transition are stored; then the caller goes on.
TransitionStore(t) ==
    /\ thread[t].pc = "store"
    /\ state' = thread[t].nxt[3]
    /\ last_transition' = thread[t].nxt
    /\ CASE thread[t].event = "task_started" ->
              /\ thread' = [thread EXCEPT ![t].pc = "hardware", ![t].nxt = None,
                                          ![t].event = None]
              /\ UNCHANGED out
         [] thread[t].event = "task_finished" ->
              Produced(t, thread[t].depth,
                       IF thread[t].cur.type = "circuit"
                       THEN CircuitResult(thread[t].cur.task_id)
                       ELSE TestResult(thread[t].cur.task_id))
         [] OTHER ->
              Produced(t, thread[t].depth,
                       ControlAck(thread[t].cur.task_id, AckStatus(thread[t])))
    /\ UNCHANGED <<queueVars, snap, drained, trace>>

\* _execute_circuit / _execute_test: hwman.run_circuit or hwman.run_test returns.
Hardware(t) ==
    /\ thread[t].pc = "hardware"
    /\ CallTransition(t, thread[t].depth, thread[t].cur, "task_finished")
    /\ UNCHANGED <<fsmVars, queueVars, snap, drained, trace>>

\* _execute_circuit / _execute_test: hwman.run_circuit or hwman.run_test
\* raises. Nothing between the hardware call and execute's caller catches it,
\* and no transition is attempted on the way out.
HardwareRaises(t) ==
    /\ thread[t].pc = "hardware"
    /\ Raise(t, Raised("HardwareError", thread[t].cur.task_id))
    /\ UNCHANGED <<fsmVars, queueVars, snap, drained, trace>>

\* The qtol branch: one hwman.evaluate_fidelity() and what follows it. Inside
\* the loop (fewer than max_retries retunes so far) a fidelity that meets the
\* tolerance is TUNE_SUCCESS and one below it calls hwman.retune() and goes
\* round; after the loop it is TUNE_SUCCESS or TUNE_FAIL.
Qtol(t) ==
    /\ thread[t].pc = "qtol"
    /\ \E meets \in BOOLEAN :
          IF meets
          THEN thread' = [thread EXCEPT ![t].pc = "transition",
                                        ![t].event = "tune_success",
                                        ![t].evals = @ + 1]
          ELSE IF thread[t].attempt < thread[t].cur.max_retries
          THEN thread' = [thread EXCEPT ![t].attempt = @ + 1, ![t].evals = @ + 1]
          ELSE thread' = [thread EXCEPT ![t].pc = "transition",
                                        ![t].event = "tune_fail",
                                        ![t].evals = @ + 1]
    /\ UNCHANGED <<out, fsmVars, queueVars, snap, drained, trace>>

\* QPUExecutor._handle_deferred_tasks: "while self.qpu.state == QPUState.IDLE".
Drain(t) ==
    /\ thread[t].pc = "drain"
    /\ IF state = "idle"
       THEN /\ thread' = [thread EXCEPT ![t].pc = "dequeue"]
            /\ UNCHANGED out
       ELSE ReturnFromDispatch(t)
    /\ UNCHANGED <<fsmVars, queueVars, snap, drained, trace>>

\* A faulty drain: it takes the head of the deque instead of min().
DrainDequeueHead(t) ==
    /\ thread[t].pc = "dequeue"
    /\ IF queue = <<>>
       THEN ReturnFromDispatch(t)
       ELSE /\ thread' = [thread EXCEPT ![t].pc = "remove", ![t].best = queue[1]]
            /\ UNCHANGED out
    /\ UNCHANGED <<fsmVars, queueVars, snap, drained, trace>>

\* QPUTaskQueue.dequeue inside _handle_deferred_tasks, first half: the
\* emptiness test, which ends the loop, and min().
DrainDequeue(t) ==
    /\ thread[t].pc = "dequeue"
    /\ IF queue = <<>>
       THEN ReturnFromDispatch(t)
       ELSE /\ thread' = [thread EXCEPT ![t].pc = "remove",
                                        ![t].best = MinEntry(queue)]
            /\ UNCHANGED out
    /\ UNCHANGED <<fsmVars, queueVars, snap, drained, trace>>

\* QPUExecutor._execute_next is called (main.start_loop), and
\* QPUTaskQueue.dequeue inside it, first half: on an empty queue the caller
\* goes on to QPUQueueEmpty("..."), whose __init__ takes no argument.
ExecuteNext(t) ==
    /\ t = Poller
    /\ thread[t].pc = "ready"
    /\ IF queue = <<>>
       THEN Raise(t, Raised("TypeError", "QPUQueueEmpty.__init__"))
       ELSE /\ thread' = [thread EXCEPT ![t].pc = "remove",
                                        ![t].best = MinEntry(queue)]
            /\ UNCHANGED out
    /\ UNCHANGED <<fsmVars, queueVars, snap, drained, trace>>

\* QPUTaskQueue.dequeue inside the executor, second half:
\* self._queue.remove(best_entry), and what the caller does with the entry.
\* _handle_deferred_tasks dispatches its task; _execute_next dispatches it when
\* it has no context id and otherwise evaluates asyncio.run, a name the module
\* never imports.
DequeueRemoveKeeps(t) ==
    /\ thread[t].pc = "remove"
    /\ IF thread[t].best \notin Range(queue)
       THEN /\ Raise(t, Raised("ValueError", "deque.remove(x): x not in deque"))
            /\ UNCHANGED <<queue, trace>>
       ELSE /\ queue' = queue
            /\ IF t # Poller
               THEN dispatch(t, thread[t].depth + 1, thread[t].best.task)
               ELSE IF thread[t].best.context_id # None
               THEN Raise(t, Raised("NameError", "asyncio")) /\ UNCHANGED trace
               ELSE dispatch(t, 0, thread[t].best.task)
    /\ UNCHANGED <<fsmVars, context_locks, clock, snap, drained>>

DequeueRemove(t) ==
    /\ thread[t].pc = "remove"
    /\ IF thread[t].best \notin Range(queue)
       THEN /\ Raise(t, Raised("ValueError", "deque.remove(x): x not in deque"))
            /\ UNCHANGED <<queue, trace>>
       ELSE /\ queue' = RemoveFirst(queue, thread[t].best)
            /\ IF t # Poller
               THEN dispatch(t, thread[t].depth + 1, thread[t].best.task)
               ELSE IF thread[t].best.context_id # None
               THEN Raise(t, Raised("NameError", "asyncio")) /\ UNCHANGED trace
               ELSE dispatch(t, 0, thread[t].best.task)
    /\ UNCHANGED <<fsmVars, context_locks, clock, snap, drained>>

\* The owner of the executor drives the machine to Idle, as
\* bring_executor_to_idle_state does.
BringUpEvents == {"connect", "device_ok", "tune_success", "reset"}

BringUp ==
    \E e \in BringUpEvents :
        /\ next_state(state, e) # None
        /\ transition(e)
        /\ UNCHANGED <<queueVars, callerVars, threadVars>>

\* The owner of the executor makes the device fail, as
\* bring_executor_to_unresponsive_state does after connect.
BringToUnresponsive ==
    /\ next_state(state, "device_fail") # None
    /\ transition("device_fail")
    /\ UNCHANGED <<queueVars, callerVars, threadVars>>

Next ==
    \/ BringUp
    \/ \E t \in Callers : Execute(t)
    \/ \E t \in Callers : CheckIdle(t)
    \/ ExecuteNext(Poller)
    \/ \E t \in Threads : TransitionRead(t)
    \/ \E t \in Threads : TransitionStore(t)
    \/ \E t \in Threads : Hardware(t)
    \/ \E t \in Threads : Drain(t)
    \/ \E t \in Threads : DrainDequeue(t)
    \/ \E t \in Threads : DequeueRemove(t)

\* One submitter and nobody else: every call to execute runs to its end before
\* the next one begins.
NextSolo ==
    \/ BringUp
    \/ Execute("alice")
    \/ CheckIdle("alice")
    \/ TransitionRead("alice")
    \/ TransitionStore("alice")
    \/ Hardware("alice")
    \/ Drain("alice")
    \/ DrainDequeue("alice")
    \/ DequeueRemove("alice")

\* The steps that carry a running call of the submitter forward.
SoloCallSteps ==
    \/ CheckIdle("alice")
    \/ TransitionRead("alice")
    \/ TransitionStore("alice")
    \/ Hardware("alice")
    \/ Drain("alice")
    \/ DrainDequeue("alice")
    \/ DequeueRemove("alice")

\* One submitter and a hardware interface whose run calls may raise.
NextFaulty ==
    \/ NextSolo
    \/ HardwareRaises("alice")

\* The operator submits Control tasks while the polling thread runs the
\* background step; no Circuit or Test task is about, so no hardware run.
NextControl ==
    \/ BringUp
    \/ BringToUnresponsive
    \/ Execute(Operator)
    \/ CheckIdle(Operator)
    \/ ExecuteNext(Poller)
    \/ \E t \in {Operator, Poller} : TransitionRead(t)
    \/ \E t \in {Operator, Poller} : TransitionStore(t)
    \/ \E t \in {Operator, Poller} : Qtol(t)
    \/ \E t \in {Operator, Poller} : Drain(t)
    \/ \E t \in {Operator, Poller} : DrainDequeue(t)
    \/ \E t \in {Operator, Poller} : DequeueRemove(t)

\* -------------------------------------------------------------------- specs
SpecFSM == Init /\ [][NextFSM]_vars

SpecSolo == Init /\ [][NextSolo]_vars

SpecFaulty == Init /\ [][NextFaulty]_vars

SpecControl == Init /\ [][NextControl]_vars

SpecQueue == Init /\ [][NextQueue]_vars

Spec == Init /\ [][Next]_vars

\* ------------------------------------------------------ properties: machine
\* The eleven rows of state_machine_test.py and of the table, written out as
\* (state, event, next state).
ElevenRows ==
    {<<"inaccessible", "connect", "accessible">>,
     <<"accessible", "device_ok", "responsive">>,
     <<"accessible", "device_fail", "unresponsive">>,
     <<"responsive", "tune_success", "tuned">>,
     <<"responsive", "tune_fail", "mis-tuned">>,
     <<"tuned", "fidelity_degraded", "mis-tuned">>,
     <<"mis-tuned", "tune_success", "tuned">>,
     <<"tuned", "reset", "idle">>,
     <<"idle", "task_started", "busy">>,
     <<"busy", "task_finished", "idle">>,
     <<"unresponsive", "disconnect", "inaccessible">>}

\* The step is a call transition(e) made in state s.
TransitionCalled(s, e) ==
    /\ state = s
    /\ out'.op = "transition"
    /\ out'.arg = e

\* C2: for each of the eleven (state, event) rows, calling transition(event)
\* in that state returns normally and makes the current state exactly the
\* listed next state.
C2_ElevenRows ==
    [][\A r \in ElevenRows :
          TransitionCalled(r[1], r[2]) =>
              /\ state' = r[3]
              /\ out'.outcome = Returned(None)]_vars

\* The machine has walked connect, device_ok, tune_success, reset,
\* task_started and has just taken the Busy/task_finished row.
C2_Witness ==
    /\ state = "idle"
    /\ last_transition = AuditRecord("busy", "task_finished", "idle")
    /\ out = Call("transition", "task_finished", Returned(None))

\* C3: for every (state, event) pair that is not a row of the transition
\* table, transition(event) fails with the invalid-transition error naming
\* the event, and the state and the audit record are what they were. (The
\* pairs are all those outside the eleven rows, Idle/Reset among them.)
C3_InvalidTransition ==
    [][\A s \in QPUState, e \in QPUEvent :
          ((\A r \in ElevenRows : <<r[1], r[2]>> # <<s, e>>) /\ TransitionCalled(s, e)) =>
              /\ out'.outcome = Raised("UnknownQPUState", e)
              /\ state' = state
              /\ last_transition' = last_transition]_vars

\* A reset was refused in Accessible, after one accepted transition whose
\* audit record is still there.
C3_Witness ==
    /\ out = Call("transition", "reset", Raised("UnknownQPUState", "reset"))
    /\ state = "accessible"
    /\ last_transition = AuditRecord("inaccessible", "connect", "accessible")

\* C22: the table also has the rows Idle/Reset -> Idle, Mis-tuned/Retune ->
\* Responsive and Tuned/Retune -> Responsive: transition(reset) in Idle and
\* transition(retune) in Mis-tuned or Tuned return normally and make the
\* state the listed one.
C22_ResetRetuneRows ==
    [][\A r \in {<<"idle", "reset", "idle">>,
                 <<"mis-tuned", "retune", "responsive">>,
                 <<"tuned", "retune", "responsive">>} :
          TransitionCalled(r[1], r[2]) =>
              /\ state' = r[3]
              /\ out'.outcome = Returned(None)]_vars

\* The events of test_successful_startup_sequence and the states it passes.
StartupEvents ==
    <<"connect", "device_ok", "tune_success", "reset", "task_started",
      "task_finished">>

StartupStates ==
    <<"inaccessible", "accessible", "responsive", "tuned", "idle", "busy", "idle">>

\* C23: a fresh machine is Inaccessible, and from there connect, device_ok,
\* tune_success, reset, task_started, task_finished succeed one after the
\* other, the state passing through Accessible, Responsive, Tuned, Idle, Busy
\* and Idle in that order.
C23_StartupSequence ==
    /\ state = StartupStates[1]
    /\ [][\A k \in 1..Len(StartupEvents) :
             TransitionCalled(StartupStates[k], StartupEvents[k]) =>
                 /\ state' = StartupStates[k + 1]
                 /\ out'.outcome = Returned(None)]_vars

\* The last event of the sequence has just been accepted: the machine went
\* from Busy back to Idle.
C23_Witness ==
    /\ out.op = "transition"
    /\ out.arg = StartupEvents[6]
    /\ out.outcome = Returned(None)
    /\ last_transition = AuditRecord(StartupStates[6], StartupEvents[6], StartupStates[7])
    /\ state = StartupStates[7]

\* C24: the audit record is empty until a call of transition succeeds; a
\* successful call overwrites it with (previous state, event, next state) of
\* that call, and a failed call leaves it as it was. It is one record, the
\* most recent, never a list of them.
C24_AuditRecord ==
    /\ last_transition = None
    /\ [][out'.op = "transition" =>
             IF out'.outcome = Returned(None)
             THEN last_transition' = <<state, out'.arg, state'>>
             ELSE last_transition' = last_transition]_vars

\* A call failed in Idle and the record is still that of the last success,
\* which had itself overwritten earlier ones.
C24_Witness ==
    /\ out.op = "transition"
    /\ IsRaised(out.outcome)
    /\ state = "idle"
    /\ last_transition = AuditRecord("busy", "task_finished", "idle")

\* C25: no state is terminal: in each of the eight states some event is
\* accepted; from Unresponsive, disconnect leads to Inaccessible and connect
\* from there to Accessible.
C25_NoTerminalState ==
    /\ [](\E e \in QPUEvent : next_state(state, e) # None)
    /\ [][/\ TransitionCalled("unresponsive", "disconnect") =>
                 /\ state' = "inaccessible"
                 /\ out'.outcome = Returned(None)
          /\ TransitionCalled("inaccessible", "connect") =>
                 /\ state' = "accessible"
                 /\ out'.outcome = Returned(None)]_vars

\* The machine was Unresponsive and a disconnect has brought it back to
\* Inaccessible.
C25_Witness ==
    /\ state = "inaccessible"
    /\ out = Call("transition", "disconnect", Returned(None))
    /\ last_transition = AuditRecord("unresponsive", "disconnect", "inaccessible")

\* C38: once the state has reached Idle, every later state is Idle or Busy:
\* no transition call made in Idle or Busy, whatever its event, leaves the
\* pair, so no sequence of calls leads back to one of the six other states.
C38_IdleBusyClosed ==
    [][(state = "idle" \/ state = "busy") =>
           (state' = "idle" \/ state' = "busy")]_vars

\* The machine went from Idle to Busy and a disconnect called in Busy was
\* refused.
C38_Witness ==
    /\ state = "busy"
    /\ out.op = "transition" /\ out.arg = "disconnect" /\ IsRaised(out.outcome)
    /\ last_transition = AuditRecord("idle", "task_started", "busy")

\* -------------------------------------------------------- properties: queue
\* Entry e is served before entry x: the higher priority first and, at equal
\* priority, the earlier timestamp.
ServedBefore(e, x) ==
    \/ e.priority > x.priority
    \/ e.priority = x.priority /\ e.timestamp < x.timestamp

\* e is pending in q, has the highest priority there and, among the entries
\* of that priority, the earliest timestamp.
IsTop(e, q) ==
    /\ e \in Range(q)
    /\ \A x \in Range(q) :
           /\ x.priority <= e.priority
           /\ x.priority = e.priority => e.timestamp <= x.timestamp

\* C8: dequeue on a non-empty queue removes exactly one entry and returns it:
\* the entry with the maximum priority and, among those, the earliest
\* timestamp; all other entries stay pending, in their order.
C8_Dequeue ==
    [][(out'.op = "dequeue" /\ queue # <<>>) =>
          /\ IsObject(out'.outcome)
          /\ IsTop(out'.outcome.object, queue)
          /\ \E i \in 1..Len(queue) :
                 /\ queue[i] = out'.outcome.object
                 /\ queue' = RemoveAt(queue, i)]_vars

\* A dequeue returned an entry that was enqueued after one still pending (its
\* priority won) and that shares its priority with another still pending (its
\* timestamp won).
C8_Witness ==
    /\ out.op = "dequeue"
    /\ IsObject(out.outcome)
    /\ \E x \in Range(queue) : x.timestamp < out.outcome.object.timestamp
    /\ \E y \in Range(queue) :
           /\ y.priority = out.outcome.object.priority
           /\ y.timestamp > out.outcome.object.timestamp

\* The entries of q laid out in serving order.
ServingOrder(q) ==
    [k \in 1..Len(q) |->
        q[CHOOSE i \in 1..Len(q) :
              Cardinality({j \in 1..Len(q) : ServedBefore(q[j], q[i])}) = k - 1]]

\* C9: with N entries pending (snap) and no further enqueue, the k-th
\* successive dequeue, k <= N, returns the k-th entry of the serving order
\* (priority descending, then timestamp ascending), so all N come out once
\* each, and every dequeue after the N-th returns nothing.
C9_DrainsInOrder ==
    [][out'.op = "dequeue" =>
          IF Len(drained) < Len(snap)
          THEN /\ IsObject(out'.outcome)
               /\ out'.outcome.object = ServingOrder(snap)[Len(drained) + 1]
               /\ Len(drained') = Len(drained) + 1
          ELSE out'.outcome = Returned(None)]_vars

\* Three entries were enqueued, three dequeues returned them in an order that
\* is not the order of insertion, and a fourth dequeue returned nothing.
C9_Witness ==
    /\ out = Call("dequeue", None, Returned(None))
    /\ Len(snap) >= 3
    /\ Len(drained) = Len(snap)
    /\ drained # snap
    /\ queue = <<>>

\* The pending entries that carry context id c, in insertion order.
Batch(q, c) == SelectSeq(q, LAMBDA en : en.context_id = c)

\* C11: dequeue_all_for_context(C) returns exactly the pending entries whose
\* context id equals C, in insertion order, removes exactly those entries and
\* leaves every other entry pending, in its place.
C11_DequeueAllForContext ==
    [][out'.op = "dequeue_all_for_context" =>
          /\ out'.outcome = ReturnedObject(Batch(queue, out'.arg))
          /\ queue' = SelectSeq(queue, LAMBDA en : en.context_id # out'.arg)]_vars

C27_EnqueueAlwaysSucceeds ==
    [][out'.op = "enqueue" =>
          /\ IsObject(out'.outcome)
          /\ out'.outcome.object.task_id = out'.arg
          /\ queue' = Append(queue, out'.outcome.object)]_vars

\* C28: peek returns the entry the next dequeue would return, the one with
\* the highest priority and among those the earliest timestamp, or nothing
\* when nothing is pending; the pending entries and the locks are unchanged.
C28_Peek ==
    [][out'.op = "peek" =>
          /\ UNCHANGED <<queue, context_locks>>
          /\ IF queue = <<>>
             THEN out'.outcome = Returned(None)
             ELSE /\ IsObject(out'.outcome)
                  /\ IsTop(out'.outcome.object, queue)]_vars

\* A peek returned an entry that is not the head of the deque, with several
\* entries pending, and all of them are still there.
C28_Witness ==
    /\ out.op = "peek"
    /\ IsObject(out.outcome)
    /\ Len(queue) >= 2
    /\ out.outcome.object \in Range(queue)
    /\ out.outcome.object # queue[1]

\* C30: remove(id) returns true and takes out exactly one entry with that
\* task id when one is pending, and returns false and changes nothing
\* otherwise; the other entries stay, in their order, and no lock changes.
C30_RemoveById ==
    [][out'.op = "remove" =>
          /\ UNCHANGED context_locks
          /\ IF \E en \in Range(queue) : en.task_id = out'.arg
             THEN /\ out'.outcome = Returned(TRUE)
                  /\ \E i \in 1..Len(queue) :
                         /\ queue[i].task_id = out'.arg
                         /\ queue' = RemoveAt(queue, i)
             ELSE /\ out'.outcome = Returned(FALSE)
                  /\ queue' = queue]_vars

\* A remove returned true; another entry with the same task id and an entry
\* with another id are still pending.
C30_Witness ==
    /\ out.op = "remove"
    /\ out.outcome = Returned(TRUE)
    /\ \E en \in Range(queue) : en.task_id = out.arg
    /\ \E en \in Range(queue) : en.task_id # out.arg

\* C31: list_pending returns all pending entries in insertion order and
\* changes neither the queue nor the locks; clear leaves no entry pending and
\* leaves the lock table as it was.
C31_ListAndClear ==
    [][/\ out'.op = "list_pending" =>
             /\ out'.outcome = ReturnedObject(queue)
             /\ UNCHANGED <<queue, context_locks>>
       /\ out'.op = "clear" =>
             /\ queue' = <<>>
             /\ out'.outcome = Returned(None)
             /\ UNCHANGED context_locks]_vars

\* A clear has emptied the queue after every allowed enqueue was made, and a
\* context is still locked.
C31_Witness ==
    /\ out.op = "clear"
    /\ queue = <<>>
    /\ clock = MaxEnq
    /\ \E c \in Contexts : context_locks[c]

\* ----------------------------------------------------- properties: executor
\* The threads whose hardware call (hwman.run_circuit, hwman.run_test) has
\* begun and not returned.
InFlight == {t \in Threads : thread[t].pc = "hardware"}

\* C1: with several callers submitting and the background loop draining, at
\* most one Circuit/Test hardware call is in flight at any time.
C1_OneInFlight == Cardinality(InFlight) <= 1

\* Thread t makes the step that takes it from pc `from` to another place.
Moves(t, from) ==
    /\ thread[t].pc = from
    /\ thread'[t].pc # from

ResultOf(task) ==
    IF task.type = "circuit" THEN CircuitResult(task.task_id)
    ELSE TestResult(task.task_id)

\* C5: a submit of a Circuit or Test task that found the state Idle returns
\* the CircuitResult or TestResult of that very task, carrying its id, and
\* the state is Idle again when it returns.
C5_ImmediateResult ==
    [][\A t \in Callers :
          (/\ thread[t].pc \notin {"ready", "check"}
           /\ thread'[t].pc = "ready"
           /\ thread[t].arg.type \in {"circuit", "test"}) =>
              /\ out' = Call("execute", None, ReturnedObject(ResultOf(thread[t].arg)))
              /\ state' = "idle"]_vars

\* C6: a Circuit submit whose readiness test finds the state Busy returns
\* none and leaves its entry pending, and no step takes an entry out of the
\* queue without handing its task to a dispatch routine.
C6_NothingDropped ==
    [][/\ \A t \in Callers :
             (Moves(t, "check") /\ state = "busy") =>
                 /\ out' = Call("execute", None, Returned(None))
                 /\ queue' = queue
       /\ Len(queue') < Len(queue) =>
             \E i \in 1..Len(queue) :
                 /\ queue' = RemoveAt(queue, i)
                 /\ trace' = Append(trace, queue[i].task_id)]_vars

C10_ContextBatch ==
    [][\A t \in Threads :
          (/\ Moves(t, "remove")
           /\ Len(queue') < Len(queue)
           /\ thread[t].best.context_id # None) =>
              LET batch == Batch(queue, thread[t].best.context_id) IN
              /\ queue' = SelectSeq(queue, LAMBDA en : en \notin Range(batch))
              /\ trace' = Append(trace, batch[1].task_id)]_vars
\* C12: queue calls made concurrently by submitters and the background step
\* behave like whole operations in some order: the entry a dequeue selected
\* is still pending when the same dequeue removes it, so no dequeue fails
\* because another call changed the queue in between, and the removal takes
\* out that entry and no other.
C12_QueueCallsAtomic ==
    [][\A t \in Threads :
          Moves(t, "remove") =>
              /\ thread[t].best \in Range(queue)
              /\ queue' = RemoveFirst(queue, thread[t].best)
              /\ ~(IsRaised(out'.outcome) /\ out'.outcome.raised = "ValueError")]_vars
\* The call record of an execute that raised UnknownQPUTaskType.
UnknownTypeRaised(o) ==
    /\ o.op = "execute"
    /\ IsRaised(o.outcome)
    /\ o.outcome.raised = "UnknownQPUTaskType"

\* C13: a submit of a task whose kind is none of circuit, test, control fails
\* with the unknown-task-type error before anything else happens: the pending
\* entries, the lock table, the machine's state and audit record and every
\* thread's position are as before, nothing is dispatched, and no entry of an
\* unknown kind is ever pending.
C13_UnknownTypeFirst ==
    [][/\ (out' # out /\ UnknownTypeRaised(out')) =>
             /\ out'.outcome.arg \notin TaskType
             /\ UNCHANGED <<queue, context_locks, clock, state, last_transition,
                            thread, trace>>
       /\ \A en \in Range(queue') : en.task.type \in TaskType]_vars

\* An unknown kind was refused while an entry was pending, a context was locked
\* and the machine was Idle.
C13_Witness ==
    /\ UnknownTypeRaised(out)
    /\ queue # <<>>
    /\ \E c \in Contexts : context_locks[c]
    /\ state = "idle"

\* C14: the dispatch of a Circuit or Test task applies TaskStarted, makes one
\* hardware run and applies TaskFinished, in that order: a hardware run starts
\* only from the stored TaskStarted, the state is Busy when it starts and for
\* as long as it lasts, and the TaskFinished that follows it is applied.
C14_RunSequence ==
    [][\A t \in Threads :
          /\ thread'[t].pc = "hardware" => state' = "busy"
          /\ (thread[t].pc # "hardware" /\ thread'[t].pc = "hardware") =>
                 /\ thread[t].pc = "store"
                 /\ thread[t].event = "task_started"
          /\ Moves(t, "hardware") =>
                 /\ thread'[t].pc = "transition"
                 /\ thread'[t].event = "task_finished"
                 /\ thread'[t].cur = thread[t].cur
          /\ (Moves(t, "transition") /\ thread[t].event = "task_finished") =>
                 thread'[t].pc = "store"]_vars

\* The step is a call of _execute_next that found nothing pending: no thread
\* moved and the call left its outcome.
FoundQueueEmpty ==
    /\ queue = <<>>
    /\ thread[Poller].pc = "ready"
    /\ out' # out
    /\ out'.op = "_execute_next"

\* C29: a dequeue that finds the queue empty returns nothing, raises nothing
\* and changes nothing; a background step that finds it empty ends with the
\* queue-empty error, the queue and the machine are as before and the polling
\* thread is ready for its next round.
C29_QueueEmpty ==
    [][/\ \A t \in Threads :
             (Moves(t, "dequeue") /\ queue = <<>>) =>
                 /\ UNCHANGED <<queue, state, last_transition>>
                 /\ thread'[t].pc = "ready" => ~IsRaised(out'.outcome)
       /\ FoundQueueEmpty =>
             /\ IsRaised(out'.outcome)
             /\ out'.outcome.raised = "QPUQueueEmpty"
             /\ UNCHANGED <<queue, state, last_transition>>
             /\ thread'[Poller].pc = "ready"]_vars

\* ------------------------------------------------------ properties: control
\* Thread t makes a step of its own: every statement of the executor moves
\* the thread's pc, ends a nested _dispatch or counts an evaluation.
Steps(t) ==
    <<thread'[t].pc, thread'[t].depth, thread'[t].evals>>
        # <<thread[t].pc, thread[t].depth, thread[t].evals>>

\* The running qtol of thread t has decided on `e` and is inside
\* qpu.transition(e).
QtolDecided(t, e) ==
    /\ thread[t].pc \in {"transition", "store"}
    /\ thread[t].event = e
    /\ thread[t].cur.command = "qtol"

\* The qpu.transition of thread t is applied and the ControlAck of its
\* dispatch has the given status.
AppliedWithAck(t, status) ==
    /\ thread[t].pc = "transition" =>
           /\ thread'[t].pc = "store"
           /\ thread'[t].nxt[2] = thread[t].event
    /\ thread[t].pc = "store" =>
           /\ state' = thread[t].nxt[3]
           /\ last_transition' = thread[t].nxt
           /\ thread'[t].pc = "drain"
           /\ thread[t].depth = 0 =>
                  thread'[t].res = ControlAck(thread[t].cur.task_id, status)

\* C15: a qtol dispatch whose first fidelity evaluation meets the tolerance
\* applies TuneSuccess and returns a ControlAck with status ok, and has called
\* hwman.retune() not once.
C15_QtolFirstMeets ==
    [][\A t \in Threads :
          (QtolDecided(t, "tune_success") /\ thread[t].evals = 1 /\ Steps(t)) =>
              /\ thread[t].attempt = 0
              /\ AppliedWithAck(t, "ok")]_vars

\* C16: a qtol dispatch with max_retries = n never calls hwman.retune() more
\* than n times; when every evaluation is below the tolerance it makes exactly
\* n retunes and n + 1 evaluations, then applies TuneFail and returns a
\* ControlAck with status error.
C16_QtolExhausted ==
    [][\A t \in Threads :
          /\ thread'[t].pc = "qtol" =>
                 thread'[t].attempt <= thread'[t].cur.max_retries
          /\ (QtolDecided(t, "tune_fail") /\ Steps(t)) =>
                 /\ thread[t].attempt = thread[t].cur.max_retries
                 /\ thread[t].evals = thread[t].cur.max_retries + 1
                 /\ AppliedWithAck(t, "error")]_vars

\* C17: a qtol dispatch whose in-loop evaluations, one before each of its
\* max_retries retunes, are all below the tolerance and whose re-evaluation
\* after the last retune meets it applies TuneSuccess and returns a ControlAck
\* with status warning.
C17_QtolLateSuccess ==
    [][\A t \in Threads :
          (/\ QtolDecided(t, "tune_success")
           /\ thread[t].attempt >= 1
           /\ thread[t].attempt = thread[t].cur.max_retries
           /\ Steps(t)) =>
              /\ thread[t].evals = thread[t].cur.max_retries + 1
              /\ AppliedWithAck(t, "warning")]_vars

\* The task whose _dispatch the next step of thread t begins or continues
\* (none when that step dispatches nothing).
Dispatching(t) ==
    CASE thread[t].pc = "check" /\ state = "idle" -> {thread[t].arg}
      [] /\ thread[t].pc = "remove"
         /\ thread[t].best \in Range(queue)
         /\ (t = Poller => thread[t].best.context_id = None) ->
           {thread[t].best.task}
      [] thread[t].pc \in {"transition", "store", "qtol"} -> {thread[t].cur}
      [] OTHER -> {}

\* C18: the dispatch, through execute, of a Control task with command retune,
\* resetall or qtol never ends in an exception: the thread does not leave
\* execute by a raise while it dispatches such a task, and the dispatch that
\* execute returns produced a ControlAck with status ok, warning or error.
C18_ControlNeverRaises ==
    [][\A t \in Threads \ {Poller} : \A task \in Dispatching(t) :
          (Steps(t) /\ task.type = "control"
                    /\ task.command \in {"retune", "resetall", "qtol"}) =>
              /\ ~(thread'[t].pc = "ready" /\ IsRaised(out'.outcome))
              /\ (thread'[t].pc = "drain" /\ thread'[t].depth = 0) =>
                     thread'[t].res \in {ControlAck(task.task_id, st) :
                                            st \in {"ok", "warning", "error"}}]_vars

C20_RetuneResetAll ==
    [][\A t \in Threads : \A task \in Dispatching(t) :
          (Steps(t) /\ task.type = "control"
                    /\ task.command \in {"retune", "resetall"}) =>
              IF thread[t].pc \in {"check", "remove"}
              THEN /\ thread'[t].pc = "transition"
                   /\ thread'[t].cur = task
                   /\ thread'[t].event \in
                          {IF task.command = "retune" THEN "retune" ELSE "reset",
                           "tune_fail"}
              ELSE AppliedWithAck(t, IF thread[t].event = "tune_fail"
                                     THEN "error" ELSE "ok")]_vars

\* C21: a Control task with command reset submitted while the state is Idle
\* is dispatched at once, its Reset transition is applied, the submit gets a
\* ControlAck with status ok and the state is Idle afterwards.
C21_ResetInIdle ==
    [][\A t \in Threads \ {Poller} : \A task \in Dispatching(t) :
          (Steps(t) /\ task.type = "control" /\ task.command = "reset") =>
              IF thread[t].pc \in {"check", "remove"}
              THEN /\ thread'[t].pc = "transition"
                   /\ thread'[t].event = "reset"
              ELSE /\ AppliedWithAck(t, "ok")
                   /\ thread[t].pc = "store" => state' = "idle"]_vars

\* C32: when a transition attempted during the dispatch of a submitted task
\* has no row for the current state, the submit ends with the
\* invalid-transition error naming the event, returning neither a result nor
\* none, and the machine's state and audit record are what they were just
\* before the attempt.
C32_InvalidTransitionInSubmit ==
    [][\A t \in Threads \ {Poller} :
          (/\ Moves(t, "transition")
           /\ \A r \in ElevenRows : <<r[1], r[2]>> # <<state, thread[t].event>>) =>
              /\ thread'[t].pc = "ready"
              /\ out' = Call("execute", None,
                             Raised("UnknownQPUState", thread[t].event))
              /\ UNCHANGED <<state, last_transition>>]_vars

\* The operator's submit of a reset found the machine Idle and has failed
\* with the invalid-transition error; the machine is still Idle.
C32_Witness ==
    /\ out = Call("execute", None, Raised("UnknownQPUState", "reset"))
    /\ thread[Operator].pc = "ready"
    /\ state = "idle"

\* C33: the background step takes an entry out of the queue and dispatches it
\* only when it finds the state Idle; in any other state it leaves the queue
\* as it is and attempts no transition.
C33_BackgroundOnlyWhenIdle ==
    [][(/\ Steps(Poller)
        /\ thread[Poller].pc \in {"ready", "remove"}
        /\ state # "idle") =>
           /\ UNCHANGED queue
           /\ thread'[Poller].pc = "ready"]_vars

\* C34: execute of a Control task returns its ControlAck in the same call
\* also when the state is not Idle: a reset submitted in Tuned is dispatched,
\* its Reset transition is applied, the ack has status ok and the state is
\* Idle afterwards.
C34_ControlWhenNotIdle ==
    [][\A t \in Threads \ {Poller} : \A task \in {thread[t].arg} :
          (/\ Moves(t, "check")
           /\ task.type = "control"
           /\ task.command = "reset"
           /\ state = "tuned") =>
              /\ thread'[t].pc = "transition"
              /\ thread'[t].event = "reset"]_vars

\* C35: execute of a Control task with command disconnect in Unresponsive
\* applies the Disconnect transition, returns a ControlAck with status ok and
\* leaves the state Inaccessible.
C35_DisconnectControl ==
    [][\A t \in Threads \ {Poller} : \A task \in {thread[t].arg} :
          (/\ Moves(t, "check")
           /\ task.type = "control"
           /\ task.command = "disconnect"
           /\ state = "unresponsive") =>
              /\ thread'[t].pc = "transition"
              /\ thread'[t].event = "disconnect"]_vars

\* C36: no accepted task has its routine dispatched twice, and once execute
\* has dispatched its own task at once, in Idle, no entry of that task is
\* left pending.
C36_DispatchedAtMostOnce ==
    [][/\ \A i, j \in 1..Len(trace') : trace'[i] = trace'[j] => i = j
       /\ \A t \in Threads \ {Poller} :
             (Moves(t, "check") /\ state = "idle") =>
                 \A en \in Range(queue') : en.task_id # thread[t].arg.task_id]_vars

\* C37: when the hardware call of a Circuit or Test dispatch raises after
\* TaskStarted, the state is Idle again by the time the failing call has
\* returned control to its caller.
C37_HardwareFailureRestoresIdle ==
    [][\A t \in Threads :
          (Moves(t, "hardware") /\ thread'[t].pc = "ready") =>
              state' = "idle"]_vars

\* How far a frame is from the end of the dispatch it is in: the steps of one
\* dispatch, from the Idle test of execute to the dequeue of the drain that
\* follows it, in descending order.
CallRank(f) ==
    CASE f.pc = "check" -> 11 + MaxRetries
      [] f.pc = "qtol" -> 9 + (f.cur.max_retries - f.attempt)
      [] f.pc = "transition" /\ f.event # "task_finished" -> 8
      [] f.pc = "store" /\ f.event # "task_finished" -> 7
      [] f.pc = "hardware" -> 6
      [] f.pc = "transition" -> 5
      [] f.pc = "store" -> 4
      [] f.pc = "drain" -> 3
      [] f.pc = "dequeue" -> 2
      [] f.pc = "remove" -> 1
      [] OTHER -> 0

\* The measure of a running call: the entries left in the queue, then the
\* _handle_deferred_tasks loops still open, then the rank inside the dispatch.
CallMeasure(q, f) == <<Len(q), f.depth, CallRank(f)>>

LexLess(a, b) ==
    \/ a[1] < b[1]
    \/ a[1] = b[1] /\ a[2] < b[2]
    \/ a[1] = b[1] /\ a[2] = b[2] /\ a[3] < b[3]

\* C39: with one submitter and hardware calls that return, a submit made in
\* Idle returns after finitely many dispatches: a running call is never
\* stuck, each of its steps that does not end it lowers a measure that cannot
\* fall for ever, the drain goes on only in Idle and with a pending entry, and
\* each dispatch of the drain has taken one entry out of the queue.
C39_SubmitReturns ==
    /\ [](thread["alice"].pc # "ready" => ENABLED SoloCallSteps)
    /\ [][(Steps("alice") /\ thread["alice"].pc # "ready"
                          /\ thread'["alice"].pc # "ready") =>
              LexLess(CallMeasure(queue', thread'["alice"]),
                      CallMeasure(queue, thread["alice"]))]_vars
    /\ [][(Moves("alice", "drain") /\ thread'["alice"].pc = "dequeue") =>
              state = "idle"]_vars
    /\ [][(Moves("alice", "dequeue") /\ thread'["alice"].pc = "remove") =>
              queue # <<>>]_vars
    /\ [][(Moves("alice", "remove") /\ trace' # trace) =>
              Len(queue') = Len(queue) - 1]_vars

\* A call made in Idle with two tasks already pending has come back with a
\* result after the drain emptied the queue.
C39_Witness ==
    /\ thread["alice"].pc = "ready"
    /\ out.op = "execute" /\ IsObject(out.outcome)
    /\ Len(trace) >= 3
    /\ queue = <<>>
====
